---- MODULE Spec2Model ----
(***************************************************************************)
(* Model of appreqonline.py: the Streamlit script that gates access with a *)
(* password (check_password) and then cross-references a historical table  *)
(* of enrolment requests with the current semester's requests (run_app).   *)
(*                                                                         *)
(* A script rerun is a sequence of steps (pc); the session state survives  *)
(* reruns, everything else is rebuilt by each rerun.  Text is modelled as  *)
(* TLA+ strings and the string operations of the code (lower, strip, in,   *)
(* join, replace, str) are computed character by character.                *)
(***************************************************************************)
EXTENDS Integers, Sequences, FiniteSets, TLC

(***************************************************************************)
(* Python string operations.                                               *)
(***************************************************************************)
UpperLetters == "ABCDEFGHIJKLMNOPQRSTUVWXYZÁÉÍÓÚÇÃ"
LowerLetters == "abcdefghijklmnopqrstuvwxyzáéíóúçã"
Digits == "0123456789"

CharAt(s, i) == SubSeq(s, i, i)

Positions(s) == 1..Len(s)
CharsOf(s) == {CharAt(s, i) : i \in Positions(s)}
IndexIn(s, c) == CHOOSE i \in Positions(s) : CharAt(s, i) = c

UpperSet == CharsOf(UpperLetters)
LowerSet == CharsOf(LowerLetters)
LowerOf == [c \in UpperSet |-> CharAt(LowerLetters, IndexIn(UpperLetters, c))]
UpperOf == [c \in LowerSet |-> CharAt(UpperLetters, IndexIn(LowerLetters, c))]

\* str.lower on one character (the Latin letters the tables use)
LowerChar(c) == IF c \in UpperSet THEN LowerOf[c] ELSE c

\* str.upper on one character
UpperChar(c) == IF c \in LowerSet THEN UpperOf[c] ELSE c

RECURSIVE Lower(_)
Lower(s) == IF Len(s) = 0 THEN "" ELSE LowerChar(CharAt(s, 1)) \o Lower(SubSeq(s, 2, Len(s)))

RECURSIVE Upper(_)
Upper(s) == IF Len(s) = 0 THEN "" ELSE UpperChar(CharAt(s, 1)) \o Upper(SubSeq(s, 2, Len(s)))

RECURSIVE LStrip(_)
LStrip(s) == IF Len(s) > 0 /\ CharAt(s, 1) = " " THEN LStrip(SubSeq(s, 2, Len(s))) ELSE s

RECURSIVE RStrip(_)
RStrip(s) == IF Len(s) > 0 /\ CharAt(s, Len(s)) = " " THEN RStrip(SubSeq(s, 1, Len(s) - 1)) ELSE s

\* str.strip
Strip(s) == RStrip(LStrip(s))

\* sub in s
Contains(sub, s) == \E i \in 0..(Len(s) - Len(sub)) : SubSeq(s, i + 1, i + Len(sub)) = sub

\* sep.join(parts)
RECURSIVE Join(_, _)
Join(parts, sep) ==
    IF Len(parts) = 0 THEN ""
    ELSE IF Len(parts) = 1 THEN parts[1]
    ELSE parts[1] \o sep \o Join(Tail(parts), sep)

\* s.replace(old, new), old not empty
RECURSIVE Replace(_, _, _)
Replace(s, old, new) ==
    IF Len(s) < Len(old) THEN s
    ELSE IF SubSeq(s, 1, Len(old)) = old
         THEN new \o Replace(SubSeq(s, Len(old) + 1, Len(s)), old, new)
         ELSE CharAt(s, 1) \o Replace(SubSeq(s, 2, Len(s)), old, new)

\* str(n) of a natural number
RECURSIVE NatToStr(_)
NatToStr(n) == IF n < 10 THEN CharAt(Digits, n + 1) ELSE NatToStr(n \div 10) \o CharAt(Digits, (n % 10) + 1)

IntToStr(n) == IF n < 0 THEN "-" \o NatToStr(-n) ELSE NatToStr(n)

DigitSet == CharsOf(Digits)
DigitOf == [c \in DigitSet |-> IndexIn(Digits, c) - 1]
IsDigit(c) == c \in DigitSet
DigitValue(c) == DigitOf[c]
IsDigits(s) == Len(s) > 0 /\ \A i \in 1..Len(s) : IsDigit(CharAt(s, i))

RECURSIVE DigitsValue(_)
DigitsValue(s) == IF Len(s) = 0 THEN 0 ELSE 10 * DigitsValue(SubSeq(s, 1, Len(s) - 1)) + DigitValue(CharAt(s, Len(s)))


\* Character order of str comparison (code point order) over the characters the tables use.
CodeOrder == " -./0123456789ABCDEFGHIJKLMNOPQRSTUVWXYZ_abcdefghijklmnopqrstuvwxyz°ÁÃÇÉÍÓÚáãçéíóú"
CodeSet == CharsOf(CodeOrder)
RankOf == [c \in CodeSet |-> IndexIn(CodeOrder, c)]
CharRank(c) == IF c \in CodeSet THEN RankOf[c] ELSE Len(CodeOrder) + 1

\* a < b for str
RECURSIVE StrLess(_, _)
StrLess(a, b) ==
    IF Len(b) = 0 THEN FALSE
    ELSE IF Len(a) = 0 THEN TRUE
    ELSE IF CharAt(a, 1) = CharAt(b, 1) THEN StrLess(SubSeq(a, 2, Len(a)), SubSeq(b, 2, Len(b)))
    ELSE CharRank(CharAt(a, 1)) < CharRank(CharAt(b, 1))

(***************************************************************************)
(* Cells and tables (pandas).  A float is kept exactly, in tenths.         *)
(***************************************************************************)
IntCell(n) == [k |-> "int", n |-> n, s |-> ""]
FloatCell(tenths) == [k |-> "float", n |-> tenths, s |-> ""]
StrCell(s) == [k |-> "str", n |-> 0, s |-> s]
NaN == [k |-> "nan", n |-> 0, s |-> ""]
Inf == [k |-> "inf", n |-> 0, s |-> ""]

IsNa(c) == c.k = "nan"

\* str(value), as astype(str) renders a cell
CellToStr(c) ==
    CASE c.k = "int" -> IntToStr(c.n)
      [] c.k = "float" -> (IF c.n < 0 THEN "-" ELSE "")
                          \o NatToStr((IF c.n < 0 THEN -c.n ELSE c.n) \div 10) \o "."
                          \o NatToStr((IF c.n < 0 THEN -c.n ELSE c.n) % 10)
      [] c.k = "str" -> c.s
      [] c.k = "inf" -> "inf"
      [] OTHER -> "nan"

\* The number a text denotes for pd.to_numeric(errors='coerce'): digits, digits with
\* one decimal place, the spellings of infinity; anything else is coerced to NaN.
ParseNumber(s) ==
    IF IsDigits(s) THEN IntCell(DigitsValue(s))
    ELSE IF /\ Len(s) >= 3
            /\ CharAt(s, Len(s) - 1) = "."
            /\ IsDigits(SubSeq(s, 1, Len(s) - 2))
            /\ IsDigit(CharAt(s, Len(s)))
         THEN FloatCell(10 * DigitsValue(SubSeq(s, 1, Len(s) - 2)) + DigitValue(CharAt(s, Len(s))))
    ELSE IF Lower(s) \in {"inf", "infinity"} THEN Inf
    ELSE NaN

\* pd.to_numeric(..., errors='coerce') on one value
ToNumeric(c) == IF c.k = "str" THEN ParseNumber(c.s) ELSE c

\* astype(int) on one finite value: truncation towards zero
AsTypeInt(c) ==
    IF c.k = "float"
    THEN IntCell(IF c.n < 0 THEN -((-c.n) \div 10) ELSE c.n \div 10)
    ELSE c

NonFinite(c) == c.k \in {"nan", "inf"}

\* dtype pandas infers for a column read from a sheet
InferDtype(cells) ==
    IF Len(cells) = 0 THEN "object"
    ELSE IF \E i \in 1..Len(cells) : cells[i].k = "str" THEN "object"
    ELSE IF \A i \in 1..Len(cells) : cells[i].k = "int" THEN "int64"
    ELSE "float64"

NRows(df) == Len(df.rows)
NCols(df) == Len(df.columns)
HasCol(df, name) == \E i \in 1..NCols(df) : df.columns[i] = name
ColCount(df, name) == Cardinality({i \in 1..NCols(df) : df.columns[i] = name})
ColIndex(df, name) == CHOOSE i \in 1..NCols(df) :
                        /\ df.columns[i] = name
                        /\ \A j \in 1..(i - 1) : df.columns[j] # name
\* df[name]
Col(df, name) == [r \in 1..NRows(df) |-> df.rows[r][ColIndex(df, name)]]

\* pd.read_excel: the header row gives the labels, each column gets its dtype
ReadExcel(file) ==
    [columns |-> file.columns,
     dtypes  |-> [i \in 1..Len(file.columns) |->
                     InferDtype([r \in 1..Len(file.rows) |-> file.rows[r][i]])],
     rows    |-> file.rows]

\* df.rename(columns=mapping): mapping is a function on labels
RenameCols(df, old, new) ==
    [df EXCEPT !.columns = [i \in 1..NCols(df) |-> IF df.columns[i] = old THEN new ELSE df.columns[i]]]

InSeq(v, seq) == \E i \in 1..Len(seq) : seq[i] = v

RECURSIVE Flatten(_)
Flatten(seqs) == IF Len(seqs) = 0 THEN <<>> ELSE Head(seqs) \o Flatten(Tail(seqs))

\* The elements of seq in order, each kept at its first occurrence (unique / drop_duplicates)
Unique(seq) ==
    LET firsts == SelectSeq([i \in 1..Len(seq) |-> i], LAMBDA i : \A j \in 1..(i - 1) : seq[j] # seq[i])
    IN [n \in 1..Len(firsts) |-> seq[firsts[n]]]

\* .head(n)
HeadN(seq, n) == SubSeq(seq, 1, IF Len(seq) < n THEN Len(seq) ELSE n)

RemoveAt(seq, i) == [j \in 1..(Len(seq) - 1) |-> IF j < i THEN seq[j] ELSE seq[j + 1]]

\* A stable ascending sort of records by their text field key (sort_values / sort_index)
RECURSIVE SortByKey(_)
SortByKey(seq) ==
    IF Len(seq) = 0 THEN <<>>
    ELSE LET i == CHOOSE i \in 1..Len(seq) :
                    /\ \A j \in 1..Len(seq) : ~StrLess(seq[j].key, seq[i].key)
                    /\ \A j \in 1..(i - 1) : StrLess(seq[i].key, seq[j].key)
         IN <<seq[i]>> \o SortByKey(RemoveAt(seq, i))

\* A stable descending sort of records by their field count (value_counts)
RECURSIVE SortByCountDesc(_)
SortByCountDesc(seq) ==
    IF Len(seq) = 0 THEN <<>>
    ELSE LET i == CHOOSE i \in 1..Len(seq) :
                    /\ \A j \in 1..Len(seq) : seq[j].count <= seq[i].count
                    /\ \A j \in 1..(i - 1) : seq[j].count < seq[i].count
         IN <<seq[i]>> \o SortByCountDesc(RemoveAt(seq, i))

(***************************************************************************)
(* Exceptions and the values functions return.                             *)
(***************************************************************************)
NoError == [type |-> "", msg |-> ""]
Raise(type, msg) == [type |-> type, msg |-> msg]

(***************************************************************************)
(* find_and_rename_nusp_column                                             *)
(***************************************************************************)
Keywords == <<"nusp", "numero usp", "número usp", "n° usp">>
PossibleNamesConsolidado == <<"nusp", "numero usp", "número usp", "n° usp", "n usp">>
PossibleNamesRequerimentos == <<"nusp", "número usp", "numero usp", "n° usp", "n usp">>

\* Faulty variant: the label is compared as written, without lower-casing
ColumnMatches_CaseSensitive(col, possible_names) ==
    LET normalized_possible_names == [i \in 1..Len(possible_names) |-> Strip(Lower(possible_names[i]))]
        normalized_col == Strip(col)
    IN \/ InSeq(normalized_col, normalized_possible_names)
       \/ \E k \in 1..Len(Keywords) : Contains(Keywords[k], normalized_col)

ColumnMatches(col, possible_names) ==
    LET normalized_possible_names == [i \in 1..Len(possible_names) |-> Strip(Lower(possible_names[i]))]
        normalized_col == Strip(Lower(col))
    IN \/ InSeq(normalized_col, normalized_possible_names)
       \/ \E k \in 1..Len(Keywords) : Contains(Keywords[k], normalized_col)

\* The first column, in column order, that matches (0 when none does)
FirstMatch(df, possible_names) ==
    IF \E i \in 1..NCols(df) : ColumnMatches(df.columns[i], possible_names)
    THEN CHOOSE i \in 1..NCols(df) :
            /\ ColumnMatches(df.columns[i], possible_names)
            /\ \A j \in 1..(i - 1) : ~ColumnMatches(df.columns[j], possible_names)
    ELSE 0

find_and_rename_nusp_column(df, possible_names) ==
    LET i == FirstMatch(df, possible_names)
    IN IF i # 0
       THEN [df |-> RenameCols(df, df.columns[i], "nusp"), error |-> NoError]
       ELSE [df |-> df,
             error |-> Raise("ValueError",
                             "Coluna de Número USP não encontrada. Colunas disponíveis: "
                             \o Join(df.columns, ", "))]

(***************************************************************************)
(* validate_dataframes                                                     *)
(***************************************************************************)
renamed_consolidado_cols ==
    <<"disciplina_historico", "Ano_historico", "Semestre_historico", "problema_historico", "parecer_historico">>
required_cols_consolidado == <<"nusp">> \o renamed_consolidado_cols
required_cols_requerimentos == <<"nusp", "Nome completo">>

Missing(required, df) == SelectSeq(required, LAMBDA col : ~HasCol(df, col))

validate_dataframes(df_c, df_r) ==
    LET missing_consolidado == Missing(required_cols_consolidado, df_c)
        missing_requerimentos == Missing(required_cols_requerimentos, df_r)
        errors ==
            (IF Len(missing_consolidado) > 0
             THEN <<"Arquivo consolidado: colunas faltando - "
                    \o Join([i \in 1..Len(missing_consolidado) |->
                                Replace(missing_consolidado[i], "_historico", "")], ", ")>>
             ELSE <<>>)
            \o
            (IF Len(missing_requerimentos) > 0
             THEN <<"Arquivo requerimentos: colunas faltando - " \o Join(missing_requerimentos, ", ")>>
             ELSE <<>>)
    IN IF Len(errors) > 0 THEN Raise("ValueError", Join(errors, "\n")) ELSE NoError

(***************************************************************************)
(* The key clean-up of run_app (one turn of the loop over the two tables)  *)
(***************************************************************************)
\* df["nusp"] = pd.to_numeric(df["nusp"], errors='coerce')
CoerceKey(df) ==
    LET i == ColIndex(df, "nusp")
    IN [df EXCEPT !.rows = [r \in 1..NRows(df) |-> [df.rows[r] EXCEPT ![i] = ToNumeric(df.rows[r][i])]]]

\* df["nusp"].isna().sum()
NulosAntes(df) == Cardinality({r \in 1..NRows(df) : IsNa(Col(df, "nusp")[r])})

\* df.dropna(subset=["nusp"], inplace=True)
DropNa(df) ==
    LET i == ColIndex(df, "nusp")
    IN [df EXCEPT !.rows = SelectSeq(df.rows, LAMBDA row : ~IsNa(row[i]))]

\* df["nusp"] = df["nusp"].astype(int), for a column of finite values
CastKey(df) ==
    LET i == ColIndex(df, "nusp")
    IN [df EXCEPT !.rows = [r \in 1..NRows(df) |-> [df.rows[r] EXCEPT ![i] = AsTypeInt(df.rows[r][i])]],
                  !.dtypes = [df.dtypes EXCEPT ![i] = "int64"]]

WarningText(nulos_antes, nome) ==
    "Removidos " \o IntToStr(nulos_antes) \o " registros com NUSP inválido do arquivo " \o nome

\* One turn of the loop: the table it leaves, the count it read, what it showed, what it raised
SanitizeTable(df, nome) ==
    IF ColCount(df, "nusp") > 1
    THEN [df |-> df, nulos_antes |-> 0, shown |-> <<>>,
          error |-> Raise("TypeError", "arg must be a list, tuple, 1-d array, or Series")]
    ELSE LET coerced == CoerceKey(df)
             nulos_antes == NulosAntes(coerced)
             dropped == DropNa(coerced)
             shown == IF nulos_antes > 0
                      THEN <<[kind |-> "warning", text |-> WarningText(nulos_antes, nome)]>>
                      ELSE <<>>
         IN IF \E r \in 1..NRows(dropped) : NonFinite(Col(dropped, "nusp")[r])
            THEN [df |-> dropped, nulos_antes |-> nulos_antes, shown |-> shown,
                  error |-> Raise("ValueError", "Cannot convert non-finite values (NA or inf) to integer")]
            ELSE [df |-> CastKey(dropped), nulos_antes |-> nulos_antes, shown |-> shown,
                  error |-> NoError]

(***************************************************************************)
(* The suffix renaming and the merge of run_app                            *)
(***************************************************************************)
cols_to_rename == <<"disciplina", "Ano", "Semestre", "problema", "parecer">>

\* df_consolidado.rename(columns=cols_to_rename, inplace=True)
RenameHistorico(df) ==
    [df EXCEPT !.columns = [i \in 1..NCols(df) |->
        IF InSeq(df.columns[i], cols_to_rename) THEN df.columns[i] \o "_historico" ELSE df.columns[i]]]

\* Faulty variant: each left row is paired with its first match only
Merge_FirstMatchOnly(left, right) ==
    LET kl == ColIndex(left, "nusp")
        kr == ColIndex(right, "nusp")
        rest == SelectSeq([i \in 1..NCols(right) |-> i], LAMBDA i : i # kr)
        overlap(name) == name # "nusp" /\ HasCol(left, name) /\ HasCol(right, name)
        matches(lrow) == HeadN(SelectSeq(right.rows, LAMBDA rrow : rrow[kr] = lrow[kl]), 1)
        pairs(lrow) == [j \in 1..Len(matches(lrow)) |->
                           lrow \o [c \in 1..Len(rest) |-> matches(lrow)[j][rest[c]]]]
    IN [columns |-> [i \in 1..NCols(left) |->
                        IF overlap(left.columns[i]) THEN left.columns[i] \o "_x" ELSE left.columns[i]]
                    \o [c \in 1..Len(rest) |->
                        IF overlap(right.columns[rest[c]]) THEN right.columns[rest[c]] \o "_y"
                        ELSE right.columns[rest[c]]],
        dtypes  |-> left.dtypes \o [c \in 1..Len(rest) |-> right.dtypes[rest[c]]],
        rows    |-> Flatten([i \in 1..NRows(left) |-> pairs(left.rows[i])])]

\* left.merge(right, on="nusp", how="inner")
Merge(left, right) ==
    LET kl == ColIndex(left, "nusp")
        kr == ColIndex(right, "nusp")
        rest == SelectSeq([i \in 1..NCols(right) |-> i], LAMBDA i : i # kr)
        overlap(name) == name # "nusp" /\ HasCol(left, name) /\ HasCol(right, name)
        matches(lrow) == SelectSeq(right.rows, LAMBDA rrow : rrow[kr] = lrow[kl])
        pairs(lrow) == [j \in 1..Len(matches(lrow)) |->
                           lrow \o [c \in 1..Len(rest) |-> matches(lrow)[j][rest[c]]]]
    IN [columns |-> [i \in 1..NCols(left) |->
                        IF overlap(left.columns[i]) THEN left.columns[i] \o "_x" ELSE left.columns[i]]
                    \o [c \in 1..Len(rest) |->
                        IF overlap(right.columns[rest[c]]) THEN right.columns[rest[c]] \o "_y"
                        ELSE right.columns[rest[c]]],
        dtypes  |-> left.dtypes \o [c \in 1..Len(rest) |-> right.dtypes[rest[c]]],
        rows    |-> Flatten([i \in 1..NRows(left) |-> pairs(left.rows[i])])]

(***************************************************************************)
(* calculate_additional_metrics                                            *)
(***************************************************************************)
TopN == 5

\* Series.str exists only for a column of object dtype
StrAccessorError == Raise("AttributeError", "Can only use .str accessor with string values!")
KeyError(name) == Raise("KeyError", "'" \o name \o "'")

\* series.str.lower().str.contains(word, na=False), for one value
LowerContains(c, word) == c.k = "str" /\ Contains(word, Lower(c.s))

\* the .sum() of a boolean series
CountTrue(flags) == Cardinality({r \in 1..Len(flags) : flags[r]})

\* series.nunique()
NUnique(cells) == Len(Unique(SelectSeq(cells, LAMBDA c : ~IsNa(c))))

\* series.value_counts(): one entry per distinct value, most frequent first
ValueCounts(cells) ==
    LET vals == Unique(SelectSeq(cells, LAMBDA c : ~IsNa(c)))
    IN SortByCountDesc([i \in 1..Len(vals) |->
            [key |-> CellToStr(vals[i]),
             count |-> Cardinality({r \in 1..Len(cells) : cells[r] = vals[i]})]])

\* df['periodo'] = df['Ano_historico'].astype(str) + '/' + df['Semestre_historico'].astype(str)
WithPeriodo(df) ==
    LET periodo == [r \in 1..NRows(df) |->
                       StrCell(CellToStr(Col(df, "Ano_historico")[r]) \o "/"
                               \o CellToStr(Col(df, "Semestre_historico")[r]))]
    IN IF HasCol(df, "periodo")
       THEN [df EXCEPT !.rows = [r \in 1..NRows(df) |-> [df.rows[r] EXCEPT ![ColIndex(df, "periodo")] = periodo[r]]],
                       !.dtypes = [df.dtypes EXCEPT ![ColIndex(df, "periodo")] = "object"]]
       ELSE [columns |-> Append(df.columns, "periodo"),
             dtypes  |-> Append(df.dtypes, "object"),
             rows    |-> [r \in 1..NRows(df) |-> Append(df.rows[r], periodo[r])]]

\* (aprovados / total_com_parecer * 100) if total_com_parecer > 0 else 0, as an exact fraction
TaxaAprovacao(aprovados, negados) ==
    IF aprovados + negados > 0 THEN [num |-> aprovados * 100, den |-> aprovados + negados]
    ELSE [num |-> 0, den |-> 1]

\* Lines 303-312: the body of the guard, for a table with rows
ComputeMetrics(df) ==
    IF ~HasCol(df, "parecer_historico")
    THEN [metrics |-> <<>>, df |-> df, error |-> KeyError("parecer_historico")]
    ELSE IF df.dtypes[ColIndex(df, "parecer_historico")] # "object"
    THEN [metrics |-> <<>>, df |-> df, error |-> StrAccessorError]
    ELSE IF ~HasCol(df, "disciplina_historico")
    THEN [metrics |-> <<>>, df |-> df, error |-> KeyError("disciplina_historico")]
    ELSE
      LET pareceres == Col(df, "parecer_historico")
          aprovados == CountTrue([r \in 1..Len(pareceres) |-> LowerContains(pareceres[r], "aprovado")])
          negados == CountTrue([r \in 1..Len(pareceres) |->
                                   LowerContains(pareceres[r], "negado") \/ LowerContains(pareceres[r], "indeferido")])
          base == [taxa_aprovacao |-> TaxaAprovacao(aprovados, negados),
                   media_pedidos_por_aluno |-> [num |-> NRows(df), den |-> NUnique(Col(df, "nusp"))],
                   top_disciplinas |-> HeadN(ValueCounts(Col(df, "disciplina_historico")), TopN)]
      IN IF HasCol(df, "Ano_historico") /\ HasCol(df, "Semestre_historico")
         THEN [metrics |-> [taxa_aprovacao |-> base.taxa_aprovacao,
                            media_pedidos_por_aluno |-> base.media_pedidos_por_aluno,
                            top_disciplinas |-> base.top_disciplinas,
                            distribuicao_temporal |-> SortByKey(ValueCounts(Col(WithPeriodo(df), "periodo")))],
               df |-> WithPeriodo(df), error |-> NoError]
         ELSE [metrics |-> base, df |-> df, error |-> NoError]

\* Faulty variant: no guard for the empty table, so len(df) / nunique() divides by zero
calculate_additional_metrics_Unguarded(df) ==
    IF NRows(df) = 0
    THEN [metrics |-> <<>>, df |-> df, error |-> Raise("ZeroDivisionError", "division by zero")]
    ELSE ComputeMetrics(df)

\* The dict returned, the table as the call leaves it, and what the call raised
calculate_additional_metrics(df) ==
    IF NRows(df) = 0 THEN [metrics |-> <<>>, df |-> df, error |-> NoError]
    ELSE ComputeMetrics(df)

(***************************************************************************)
(* format_problem_type, format_parecer (the markers are written as words)  *)
(***************************************************************************)
format_problem_type(problem) ==
    IF IsNa(problem) THEN "Não especificado"
    ELSE IF Upper(CellToStr(problem)) = "QR" THEN "Quebra de Requisito"
    ELSE IF Upper(CellToStr(problem)) = "CH" THEN "Conflito de Horário"
    ELSE Upper(CellToStr(problem))

format_parecer(parecer) ==
    IF IsNa(parecer) THEN "Pendente"
    ELSE IF Contains("aprovado", Lower(CellToStr(parecer))) THEN "[ok] " \o CellToStr(parecer)
    ELSE IF Contains("negado", Lower(CellToStr(parecer))) \/ Contains("indeferido", Lower(CellToStr(parecer)))
         THEN "[x] " \o CellToStr(parecer)
    ELSE "[..] " \o CellToStr(parecer)

(***************************************************************************)
(* to_excel and DataFrame.to_csv(index=False)                              *)
(***************************************************************************)
MaxColumnWidth == 50

Max2(a, b) == IF a > b THEN a ELSE b
Min2(a, b) == IF a < b THEN a ELSE b
RECURSIVE SeqMax(_)
SeqMax(seq) == IF Len(seq) = 1 THEN seq[1] ELSE Max2(seq[1], SeqMax(Tail(seq)))

NoDownload == [format |-> "", columns |-> <<>>, rows |-> <<>>, widths |-> <<>>, text |-> ""]

\* The sheet 'Relatorio': the header row, the cells, the width set for each column
to_excel(df) ==
    [format |-> "xlsx", columns |-> df.columns, rows |-> df.rows,
     widths |-> [i \in 1..NCols(df) |->
                    Min2(Max2(SeqMax([r \in 1..NRows(df) |-> Len(CellToStr(df.rows[r][i]))]),
                              Len(df.columns[i])) + 2,
                         MaxColumnWidth)],
     text |-> ""]

\* One field of a delimited line: a missing value is empty, a field holding the delimiter is quoted
CsvField(c) ==
    IF IsNa(c) THEN ""
    ELSE IF Contains(",", CellToStr(c)) THEN "\"" \o CellToStr(c) \o "\"" ELSE CellToStr(c)

CsvText(df) ==
    Join(<<Join(df.columns, ",")>> \o [r \in 1..NRows(df) |->
            Join([i \in 1..NCols(df) |-> CsvField(df.rows[r][i])], ",")], "\n") \o "\n"

to_csv(df) == [format |-> "csv", columns |-> <<>>, rows |-> <<>>, widths |-> <<>>, text |-> CsvText(df)]

(***************************************************************************)
(* What run_app shows (st.metric, charts, tables), in the order shown.     *)
(***************************************************************************)
Out(kind, text) == [kind |-> kind, text |-> text]

\* f"{num/den:.1f}"
Format1f(num, den) ==
    LET tenths == (20 * num + den) \div (2 * den)
    IN NatToStr(tenths \div 10) \o "." \o NatToStr(tenths % 10)

\* (series.str.upper() == code).sum()
CountCode(cells, code) == CountTrue([r \in 1..Len(cells) |-> cells[r].k = "str" /\ Upper(cells[r].s) = code])

\* Lines 156-172: the five metrics; an error ends the block after what was already shown
DisplayMetrics(df_r, joined, metrics) ==
    LET alunos_unicos_historico == NUnique(Col(joined, "nusp"))
        unicos == NUnique(Col(df_r, "nusp"))
        percentual == IF unicos > 0 THEN Format1f(alunos_unicos_historico * 100, unicos) ELSE "0.0"
        first == <<Out("metric", "Total de Requerimentos: " \o IntToStr(NRows(df_r))),
                   Out("metric", "Alunos com Histórico: " \o IntToStr(alunos_unicos_historico)
                                 \o " (" \o percentual \o "%)")>>
        taxa_aprovacao == IF "taxa_aprovacao" \in DOMAIN metrics THEN metrics.taxa_aprovacao
                          ELSE [num |-> 0, den |-> 1]
    IN IF ~HasCol(joined, "problema_historico")
       THEN [shown |-> first, error |-> KeyError("problema_historico")]
       ELSE IF joined.dtypes[ColIndex(joined, "problema_historico")] # "object"
       THEN [shown |-> first, error |-> StrAccessorError]
       ELSE [shown |-> first \o
                <<Out("metric", "Quebras de Requisito: "
                                \o IntToStr(CountCode(Col(joined, "problema_historico"), "QR"))),
                  Out("metric", "Conflitos de Horário: "
                                \o IntToStr(CountCode(Col(joined, "problema_historico"), "CH"))),
                  Out("metric", "Taxa de Aprovação (Hist.): "
                                \o Format1f(taxa_aprovacao.num, taxa_aprovacao.den) \o "%")>>,
             error |-> NoError]

\* The two tables of one student's expander (lines 203-219)
AlunoBlock(joined, aluno) ==
    LET historico == SelectSeq(joined.rows, LAMBDA row : row[ColIndex(joined, "nusp")] = aluno.nusp)
        cell(row, name) == row[ColIndex(joined, name)]
        deferidos == SelectSeq(historico, LAMBDA row : LowerContains(cell(row, "parecer_historico"), "aprovado"))
        line(row, last) == Join(<<CellToStr(cell(row, "disciplina_historico")),
                                  CellToStr(cell(row, "Ano_historico")),
                                  CellToStr(cell(row, "Semestre_historico"))>> \o last, " | ")
    IN <<Out("expander", aluno.key \o " (NUSP: " \o CellToStr(aluno.nusp) \o ")"),
         IF Len(deferidos) > 0
         THEN Out("table", Join([r \in 1..Len(deferidos) |->
                                    line(deferidos[r], <<CellToStr(cell(deferidos[r], "parecer_historico"))>>)], "\n"))
         ELSE Out("info", "Este aluno não possui pedidos deferidos no histórico."),
         Out("table", Join([r \in 1..Len(historico) |->
                               line(historico[r], <<format_problem_type(cell(historico[r], "problema_historico")),
                                                    format_parecer(cell(historico[r], "parecer_historico"))>>)], "\n"))>>

\* Lines 177-219, for a joined table that is not empty: the charts and one expander per student
DisplayDetails(joined, metrics) ==
    LET charts ==
            (IF "top_disciplinas" \in DOMAIN metrics /\ Len(metrics.top_disciplinas) > 0
             THEN <<Out("chart", "Top 5 Disciplinas com Histórico")>> ELSE <<>>)
            \o
            (IF "distribuicao_temporal" \in DOMAIN metrics /\ Len(metrics.distribuicao_temporal) > 0
             THEN <<Out("chart", "Pedidos por Período")>> ELSE <<>>)
            \o <<Out("info", "Clique no nome de um aluno para expandir e ver seu histórico completo de pedidos.")>>
    IN IF ~HasCol(joined, "Nome completo")
       THEN [shown |-> charts, error |-> Raise("KeyError", "\"['Nome completo'] not in index\"")]
       ELSE LET alunos_unicos ==
                    SortByKey(Unique([r \in 1..NRows(joined) |->
                        [nusp |-> Col(joined, "nusp")[r],
                         key |-> CellToStr(Col(joined, "Nome completo")[r])]]))
            IN [shown |-> charts \o Flatten([a \in 1..Len(alunos_unicos) |-> AlunoBlock(joined, alunos_unicos[a])]),
                error |-> NoError]

\* The two except clauses of run_app
ShowError(error, debug) ==
    IF error.type = "ValueError"
    THEN <<Out("error", "Erro de Validação: " \o error.msg)>>
    ELSE <<Out("error", "Ocorreu um erro inesperado: " \o error.msg)>>
         \o (IF debug THEN <<Out("exception", error.type)>> ELSE <<>>)

(***************************************************************************)
(* The inputs of a session: the passwords typed and the sheets uploaded.   *)
(***************************************************************************)
MaxRows == 3
MaxVarRows == 2

SeqsUpTo(S, n) == UNION {[1..m -> S] : m \in 0..n}

DefaultPassword == "admin"
ConfiguredPassword == "s3nha"
SecretsChoices == {<<>>, [senha_mestra |-> ConfiguredPassword]}
PasswordsTyped == {"", "admin", "s3nha", "Admin"}

Lay(label, role) == [label |-> label, role |-> role]

HistLayouts ==
    {<<Lay("nusp", "key"), Lay("disciplina", "disciplina"), Lay("Ano", "ano"),
       Lay("Semestre", "semestre"), Lay("problema", "problema"), Lay("parecer", "parecer")>>,
     <<Lay("Número USP", "key"), Lay("disciplina_historico", "disciplina"), Lay("Ano_historico", "ano"),
       Lay("Semestre_historico", "semestre"), Lay("problema_historico", "problema"),
       Lay("parecer_historico", "parecer")>>,
     <<Lay("matricula", "key"), Lay("disciplina_historico", "disciplina"), Lay("Ano_historico", "ano"),
       Lay("Semestre_historico", "semestre"), Lay("problema_historico", "problema"),
       Lay("parecer_historico", "parecer")>>,
     <<Lay("Ano_historico", "ano"), Lay(" NUSP", "key"), Lay("Semestre_historico", "semestre"),
       Lay("problema_historico", "problema"), Lay("parecer_historico", "parecer")>>,
     <<Lay("nusp", "key"), Lay("Nome completo", "nome"), Lay("disciplina_historico", "disciplina"),
       Lay("Ano_historico", "ano"), Lay("Semestre_historico", "semestre"),
       Lay("problema_historico", "problema"), Lay("parecer_historico", "parecer")>>}

CurLayouts ==
    {<<Lay("nusp", "key"), Lay("Nome completo", "nome")>>,
     <<Lay("Nome completo", "nome"), Lay(" N USP ", "key")>>,
     <<Lay("NUSP", "key")>>,
     <<Lay("Nome completo", "nome")>>,
     <<Lay("Nome completo", "nome"), Lay("Código NUSP do aluno", "key"), Lay("nusp", "ano")>>,
     <<Lay("Nome completo", "nome"), Lay("N USP aluno", "key")>>}

\* The layouts the data scenarios use: the ones the pipeline accepts
HistDataLayout ==
    <<Lay("Número USP", "key"), Lay("disciplina_historico", "disciplina"), Lay("Ano_historico", "ano"),
      Lay("Semestre_historico", "semestre"), Lay("problema_historico", "problema"),
      Lay("parecer_historico", "parecer")>>
CurDataLayout == <<Lay("nusp", "key"), Lay("Nome completo", "nome")>>

HistRow(key, disciplina, semestre, problema, parecer) ==
    [key |-> key, nome |-> StrCell("Ana"), disciplina |-> disciplina, ano |-> IntCell(2023),
     semestre |-> semestre, problema |-> problema, parecer |-> parecer]
CurRow(key, nome) ==
    [key |-> key, nome |-> nome, disciplina |-> NaN, ano |-> IntCell(2024),
     semestre |-> NaN, problema |-> NaN, parecer |-> NaN]

Sheet(layout, rows) ==
    [present |-> TRUE,
     columns |-> [i \in 1..Len(layout) |-> layout[i].label],
     rows    |-> [r \in 1..Len(rows) |-> [i \in 1..Len(layout) |-> rows[r][layout[i].role]]]]

\* Rows for the scenarios about the join and the decisions: whole keys only
HistJoinPool ==
    {HistRow(IntCell(1), StrCell("MAC0110"), IntCell(1), StrCell("QR"), StrCell("Aprovado")),
     HistRow(IntCell(2), StrCell("MAT0111"), IntCell(2), StrCell("ch"), StrCell("APROVADO com ressalva")),
     HistRow(IntCell(2), StrCell("MAC0110"), IntCell(10), StrCell("CH"), StrCell("Pedido Indeferido"))}
CurJoinPool ==
    {CurRow(IntCell(1), StrCell("Ana")), CurRow(IntCell(2), StrCell("Bia"))}

\* Rows for the scenarios about the key clean-up: every kind of value a cell can hold
HistVarPool ==
    {HistRow(IntCell(1), StrCell("MAC0110"), IntCell(1), NaN, NaN),
     HistRow(StrCell("2"), StrCell("MAT0111"), IntCell(2), NaN, StrCell("negado")),
     HistRow(StrCell("s/n"), NaN, IntCell(1), StrCell("QR"), StrCell("Em análise")),
     HistRow(NaN, StrCell("MAC0110"), IntCell(1), IntCell(7), IntCell(0))}
CurVarPool ==
    {CurRow(IntCell(1), StrCell("Ana")),
     CurRow(FloatCell(15), StrCell("Caio")),
     CurRow(NaN, StrCell("Edu")),
     CurRow(StrCell("inf"), StrCell("Fabi"))}

Scenario(consolidado, requerimentos, debug, format) ==
    [consolidado |-> consolidado, requerimentos |-> requerimentos,
     show_debug |-> debug, export_format |-> format]

\* The header rows vary, the rows are fixed
SchemaScenarios ==
    {Scenario(Sheet(h, <<HistRow(IntCell(1), StrCell("MAC0110"), IntCell(1), StrCell("QR"), StrCell("Aprovado")),
                         HistRow(StrCell("s/n"), StrCell("MAT0111"), IntCell(2), NaN, NaN)>>),
              Sheet(c, <<CurRow(IntCell(1), StrCell("Ana"))>>), d, "Excel") :
        h \in HistLayouts, c \in CurLayouts, d \in BOOLEAN}

JoinScenarios ==
    {Scenario(Sheet(HistDataLayout, h), Sheet(CurDataLayout, c), FALSE, f) :
        h \in SeqsUpTo(HistJoinPool, MaxRows), c \in SeqsUpTo(CurJoinPool, MaxRows), f \in {"Excel", "CSV"}}

KeyScenarios ==
    {Scenario(Sheet(HistDataLayout, h), Sheet(CurDataLayout, c), FALSE, "CSV") :
        h \in SeqsUpTo(HistVarPool, MaxVarRows), c \in SeqsUpTo(CurVarPool, MaxVarRows)}

Scenarios == SchemaScenarios \cup JoinScenarios \cup KeyScenarios

(***************************************************************************)
(* State                                                                   *)
(***************************************************************************)
VARIABLES
    secrets,              \* st.secrets["passwords"]
    session_state,        \* st.session_state
    form_submitted,       \* the login form's button, true in the rerun its click starts
    form_password,        \* the login form's text input
    file_consolidado,     \* the two st.file_uploader widgets
    file_requerimentos,
    show_debug,           \* the checkbox
    export_format,        \* the selectbox
    pc,                   \* where the script is in the current rerun
    df_consolidado,       \* run_app's local variables
    df_requerimentos,
    alunos_com_historico,
    metrics,
    shown,                \* what the rerun has put on the page, in order
    download,             \* what the download button offers
    flag_at_start,        \* history: password_correct when the rerun started
    merged,               \* history: the table the merge returned
    nulos,                \* history: nulos_antes of each turn of the loop
    trail,                \* history: the steps of run_app the rerun has completed
    raised                \* history: the exception the rerun caught, and the step that raised it

login_vars == <<form_submitted, form_password>>
widget_vars == <<file_consolidado, file_requerimentos, show_debug, export_format>>
local_vars == <<df_consolidado, df_requerimentos, alunos_com_historico, metrics>>
history_vars == <<merged, nulos, trail, raised>>
vars == <<secrets, session_state, login_vars, widget_vars, pc, local_vars, shown, download,
          flag_at_start, history_vars>>

NoFile == [present |-> FALSE, columns |-> <<>>, rows |-> <<>>]
NoDf == [columns |-> <<>>, dtypes |-> <<>>, rows |-> <<>>]
NoneRaised == [type |-> "", msg |-> "", step |-> ""]

\* st.session_state["password_correct"], false while the key is absent
Flag == "password_correct" \in DOMAIN session_state /\ session_state.password_correct

\* st.secrets["passwords"]["senha_mestra"], or the fallback of the except clause
correct_password == IF "senha_mestra" \in DOMAIN secrets THEN secrets.senha_mestra ELSE DefaultPassword

\* A rerun starts from an empty page with no local variable bound
FreshRun ==
    /\ df_consolidado' = NoDf
    /\ df_requerimentos' = NoDf
    /\ alunos_com_historico' = NoDf
    /\ metrics' = <<>>
    /\ shown' = <<>>
    /\ download' = NoDownload
    /\ merged' = NoDf
    /\ nulos' = [consolidado |-> 0, requerimentos |-> 0]
    /\ trail' = <<>>
    /\ raised' = NoneRaised

InitWith(secrets_choices) ==
    /\ secrets \in secrets_choices
    /\ session_state = <<>>
    /\ form_submitted = FALSE
    /\ form_password = ""
    /\ file_consolidado = NoFile
    /\ file_requerimentos = NoFile
    /\ show_debug = FALSE
    /\ export_format = "Excel"
    /\ pc = "check_password"
    /\ df_consolidado = NoDf
    /\ df_requerimentos = NoDf
    /\ alunos_com_historico = NoDf
    /\ metrics = <<>>
    /\ shown = <<>>
    /\ download = NoDownload
    /\ flag_at_start = FALSE
    /\ merged = NoDf
    /\ nulos = [consolidado |-> 0, requerimentos |-> 0]
    /\ trail = <<>>
    /\ raised = NoneRaised

\* A deployment without configured secrets; the session starts logged out
Init == InitWith({<<>>})

\* Either deployment
InitSession == InitWith(SecretsChoices)

(***************************************************************************)
(* What the user does between reruns; each interaction starts a rerun.     *)
(***************************************************************************)
SubmitLogin ==
    /\ pc = "idle"
    /\ ~Flag
    /\ \E password \in PasswordsTyped :
        /\ form_password' = password
        /\ form_submitted' = TRUE
    /\ pc' = "check_password"
    /\ flag_at_start' = Flag
    /\ FreshRun
    /\ UNCHANGED <<secrets, session_state, widget_vars>>

\* run_app does nothing with one file alone (line 104): the two uploads are one step
UploadFiles(scenarios) ==
    /\ pc = "idle"
    /\ Flag
    /\ ~file_consolidado.present
    /\ \E sc \in scenarios :
        /\ file_consolidado' = sc.consolidado
        /\ file_requerimentos' = sc.requerimentos
        /\ show_debug' = sc.show_debug
        /\ export_format' = sc.export_format
    /\ pc' = "check_password"
    /\ flag_at_start' = Flag
    /\ FreshRun
    /\ UNCHANGED <<secrets, session_state, login_vars>>

RemoveFiles ==
    /\ pc = "idle"
    /\ Flag
    /\ file_consolidado.present
    /\ file_consolidado' = NoFile
    /\ file_requerimentos' = NoFile
    /\ pc' = "check_password"
    /\ flag_at_start' = Flag
    /\ FreshRun
    /\ UNCHANGED <<secrets, session_state, login_vars, show_debug, export_format>>

(***************************************************************************)
(* check_password and the entry point (lines 53-84, 316-317)               *)
(***************************************************************************)
\* The session state once line 56 has run
Initialised == IF "password_correct" \in DOMAIN session_state THEN session_state
               ELSE [password_correct |-> FALSE]

\* Faulty variant: the comparison ignores case
PasswordAccepted_IgnoreCase(password) == Lower(password) = Lower(correct_password)

\* if password == correct_password (line 78)
PasswordAccepted(password) == password = correct_password

CheckPassword ==
    /\ pc = "check_password"
    /\ IF Initialised.password_correct
       THEN \* return True: the entry point calls run_app
            /\ session_state' = Initialised
            /\ pc' = "run_app"
            /\ UNCHANGED <<shown, flag_at_start>>
       ELSE IF form_submitted /\ PasswordAccepted(form_password)
       THEN \* st.rerun(): this run stops and the script starts again
            /\ session_state' = [password_correct |-> TRUE]
            /\ pc' = "check_password"
            /\ flag_at_start' = TRUE
            /\ shown' = <<>>
       ELSE \* return False: the page shows the form and nothing else
            /\ session_state' = Initialised
            /\ pc' = "idle"
            /\ shown' = <<Out("login", "Acesso Restrito")>>
                        \o (IF form_submitted THEN <<Out("error", "Senha incorreta. Tente novamente.")>> ELSE <<>>)
            /\ UNCHANGED flag_at_start
    /\ form_submitted' = FALSE
    /\ UNCHANGED <<secrets, form_password, widget_vars, local_vars, download, history_vars>>

(***************************************************************************)
(* run_app, step by step                                                   *)
(***************************************************************************)
\* The except clauses: the error is shown after what the run had shown, and the run ends
Fail(step, error, shown_before) ==
    /\ shown' = shown_before \o ShowError(error, show_debug)
    /\ raised' = [type |-> error.type, msg |-> error.msg, step |-> step]
    /\ pc' = "idle"

\* Lines 87-126: the page header, the sidebar, the two files read
RunAppLoad ==
    /\ pc = "run_app"
    /\ IF ~(file_consolidado.present /\ file_requerimentos.present)
       THEN /\ shown' = <<Out("welcome", "Bem-vindo ao Sistema de Conferência!")>>
            /\ pc' = "idle"
            /\ UNCHANGED <<df_consolidado, df_requerimentos, trail>>
       ELSE /\ df_consolidado' = ReadExcel(file_consolidado)
            /\ df_requerimentos' = ReadExcel(file_requerimentos)
            /\ shown' = IF show_debug
                        THEN <<Out("debug", "Consolidado: " \o Join(file_consolidado.columns, ", ")
                                            \o "\nRequerimentos: " \o Join(file_requerimentos.columns, ", "))>>
                        ELSE <<>>
            /\ trail' = <<"read">>
            /\ pc' = "normalize_consolidado"
    /\ UNCHANGED <<secrets, session_state, login_vars, widget_vars, alunos_com_historico, metrics,
                   download, flag_at_start, merged, nulos, raised>>

\* Line 128
NormalizeConsolidado ==
    /\ pc = "normalize_consolidado"
    /\ LET res == find_and_rename_nusp_column(df_consolidado, PossibleNamesConsolidado)
       IN /\ df_consolidado' = res.df
          /\ IF res.error.type # ""
             THEN Fail("normalize_consolidado", res.error, shown) /\ UNCHANGED trail
             ELSE /\ pc' = "normalize_requerimentos"
                  /\ trail' = Append(trail, "normalize_consolidado")
                  /\ UNCHANGED <<shown, raised>>
    /\ UNCHANGED <<secrets, session_state, login_vars, widget_vars, df_requerimentos, alunos_com_historico,
                   metrics, download, flag_at_start, merged, nulos>>

\* Line 129
NormalizeRequerimentos ==
    /\ pc = "normalize_requerimentos"
    /\ LET res == find_and_rename_nusp_column(df_requerimentos, PossibleNamesRequerimentos)
       IN /\ df_requerimentos' = res.df
          /\ IF res.error.type # ""
             THEN Fail("normalize_requerimentos", res.error, shown) /\ UNCHANGED trail
             ELSE /\ pc' = "validate"
                  /\ trail' = Append(trail, "normalize_requerimentos")
                  /\ UNCHANGED <<shown, raised>>
    /\ UNCHANGED <<secrets, session_state, login_vars, widget_vars, df_consolidado, alunos_com_historico,
                   metrics, download, flag_at_start, merged, nulos>>

\* Line 131
Validate ==
    /\ pc = "validate"
    /\ LET error == validate_dataframes(df_consolidado, df_requerimentos)
       IN IF error.type # ""
          THEN Fail("validate", error, shown) /\ UNCHANGED trail
          ELSE /\ pc' = "sanitize"
               /\ trail' = Append(trail, "validate")
               /\ UNCHANGED <<shown, raised>>
    /\ UNCHANGED <<secrets, session_state, login_vars, widget_vars, local_vars, download, flag_at_start,
                   merged, nulos>>

\* Lines 133-139: the loop over the two tables, the historical one first
Sanitize ==
    /\ pc = "sanitize"
    /\ LET first == SanitizeTable(df_consolidado, "consolidado")
           second == SanitizeTable(df_requerimentos, "requerimentos")
       IN IF first.error.type # ""
          THEN /\ df_consolidado' = first.df
               /\ nulos' = [nulos EXCEPT !.consolidado = first.nulos_antes]
               /\ Fail("sanitize", first.error, shown \o first.shown)
               /\ UNCHANGED <<df_requerimentos, trail>>
          ELSE /\ df_consolidado' = first.df
               /\ df_requerimentos' = second.df
               /\ nulos' = [consolidado |-> first.nulos_antes, requerimentos |-> second.nulos_antes]
               /\ IF second.error.type # ""
                  THEN Fail("sanitize", second.error, shown \o first.shown \o second.shown)
                       /\ UNCHANGED trail
                  ELSE /\ shown' = shown \o first.shown \o second.shown
                       /\ pc' = "join"
                       /\ trail' = Append(trail, "sanitize")
                       /\ UNCHANGED raised
    /\ UNCHANGED <<secrets, session_state, login_vars, widget_vars, alunos_com_historico, metrics,
                   download, flag_at_start, merged>>

\* Lines 141-153: the suffixes, the merge, the metrics
JoinMetrics ==
    /\ pc = "join"
    /\ LET renamed == RenameHistorico(df_consolidado)
           joined == Merge(df_requerimentos, renamed)
           res == calculate_additional_metrics(joined)
       IN /\ df_consolidado' = renamed
          /\ merged' = joined
          /\ alunos_com_historico' = res.df
          /\ metrics' = res.metrics
          /\ IF res.error.type # ""
             THEN Fail("metrics", res.error, shown) /\ trail' = Append(trail, "join")
             ELSE /\ pc' = "display"
                  /\ trail' = trail \o <<"join", "metrics">>
                  /\ UNCHANGED <<shown, raised>>
    /\ UNCHANGED <<secrets, session_state, login_vars, widget_vars, df_requerimentos, download,
                   flag_at_start, nulos>>

\* Lines 156-219: the metrics, then the charts and the students of a joined table that is not empty
Display ==
    /\ pc = "display"
    /\ LET top == DisplayMetrics(df_requerimentos, alunos_com_historico, metrics)
           details == IF NRows(alunos_com_historico) > 0
                      THEN DisplayDetails(alunos_com_historico, metrics)
                      ELSE [shown |-> <<>>, error |-> NoError]
       IN IF top.error.type # ""
          THEN Fail("display", top.error, shown \o top.shown) /\ UNCHANGED trail
          ELSE IF details.error.type # ""
          THEN Fail("display", details.error, shown \o top.shown \o details.shown) /\ UNCHANGED trail
          ELSE /\ shown' = shown \o top.shown \o details.shown
               /\ pc' = "export"
               /\ trail' = Append(trail, "display")
               /\ UNCHANGED raised
    /\ UNCHANGED <<secrets, session_state, login_vars, widget_vars, local_vars, download, flag_at_start,
                   merged, nulos>>

\* Lines 221-236: the download of a joined table that is not empty, or the notice that it is empty
Export ==
    /\ pc = "export"
    /\ IF NRows(alunos_com_historico) > 0
       THEN /\ download' = IF export_format = "Excel" THEN to_excel(alunos_com_historico)
                           ELSE to_csv(alunos_com_historico)
            /\ shown' = Append(shown, Out("download", IF export_format = "Excel" THEN "Baixar como Excel"
                                                     ELSE "Baixar como CSV"))
            /\ trail' = Append(trail, "export")
       ELSE /\ shown' = Append(shown, Out("success",
                            "Nenhum aluno do semestre atual foi encontrado no histórico de pedidos."))
            /\ UNCHANGED <<download, trail>>
    /\ pc' = "idle"
    /\ UNCHANGED <<secrets, session_state, login_vars, widget_vars, local_vars, flag_at_start,
                   merged, nulos, raised>>

Script ==
    \/ CheckPassword
    \/ RunAppLoad
    \/ NormalizeConsolidado
    \/ NormalizeRequerimentos
    \/ Validate
    \/ Sanitize
    \/ JoinMetrics
    \/ Display
    \/ Export

Next ==
    \/ SubmitLogin
    \/ UploadFiles(Scenarios)
    \/ RemoveFiles
    \/ Script

Spec == Init /\ [][Next]_vars

\* The sessions of either deployment, over the uploads that vary the header rows
NextSession ==
    \/ SubmitLogin
    \/ UploadFiles(SchemaScenarios)
    \/ RemoveFiles
    \/ Script

SpecSession == InitSession /\ [][NextSession]_vars

(***************************************************************************)
(* Properties                                                              *)
(***************************************************************************)
Done(step) == InSeq(step, trail)
RunEnded == pc = "idle" /\ (trail # <<>> \/ raised.step # "")
SchemaSteps == {"normalize_consolidado", "normalize_requerimentos", "validate"}
SchemaErrorRaised == raised.step \in SchemaSteps
Labels(file) == {file.columns[i] : i \in 1..Len(file.columns)}

\* C1: with the documented header rows (nusp, disciplina, Ano, Semestre, problema, parecer
\* and nusp, Nome completo) the run raises no schema error and reaches the join.
C1_DocumentedInputReachesJoin ==
    (/\ RunEnded
     /\ file_consolidado.columns = <<"nusp", "disciplina", "Ano", "Semestre", "problema", "parecer">>
     /\ file_requerimentos.columns = <<"nusp", "Nome completo">>)
    => (~SchemaErrorRaised /\ Done("join"))

KeyCount(df, k) == Cardinality({r \in 1..NRows(df) : df.rows[r][ColIndex(df, "nusp")] = k})
KeysOf(df) == {df.rows[r][ColIndex(df, "nusp")] : r \in 1..NRows(df)}

\* C2: the merge returns N*M rows for a key held by N current rows and M historical rows,
\* and so none for a key that one of the two sanitized tables lacks.
C2_JoinMultiplicity ==
    Done("join") =>
        \A k \in KeysOf(df_requerimentos) \cup KeysOf(df_consolidado) \cup KeysOf(merged) :
            KeyCount(merged, k) = KeyCount(df_requerimentos, k) * KeyCount(df_consolidado, k)

\* C2 witness: keys 1,1,2 against keys 1,2,2 joined into four rows.
C2_Witness ==
    /\ Done("join")
    /\ Col(df_requerimentos, "nusp") = <<IntCell(1), IntCell(1), IntCell(2)>>
    /\ Col(df_consolidado, "nusp") = <<IntCell(1), IntCell(2), IntCell(2)>>
    /\ NRows(merged) = 4

DenotesInteger(c) ==
    \/ c.k = "int"
    \/ c.k = "float" /\ c.n % 10 = 0
    \/ c.k = "str" /\ IsDigits(c.s)
IntegerDenoted(c) ==
    IF c.k = "int" THEN c.n ELSE IF c.k = "float" THEN c.n \div 10 ELSE DigitsValue(c.s)

\* The keys a sanitized table must hold if exactly the rows whose key denotes an integer survive
KeysExpected(file, df) ==
    LET read == [r \in 1..Len(file.rows) |-> file.rows[r][ColIndex(df, "nusp")]]
        kept == SelectSeq(read, DenotesInteger)
    IN [i \in 1..Len(kept) |-> IntCell(IntegerDenoted(kept[i]))]

\* C3: once the keys are cleaned, each table holds exactly the rows whose identifier denotes an
\* integer, each with that integer, and the rows kept plus the rows counted as dropped are the rows read.
C3_OnlyIntegerKeysSurvive ==
    Done("sanitize") =>
        /\ Col(df_consolidado, "nusp") = KeysExpected(file_consolidado, df_consolidado)
        /\ Col(df_requerimentos, "nusp") = KeysExpected(file_requerimentos, df_requerimentos)
        /\ NRows(df_consolidado) + nulos.consolidado = Len(file_consolidado.rows)
        /\ NRows(df_requerimentos) + nulos.requerimentos = Len(file_requerimentos.rows)

\* The required columns (other than the identifier) that the two uploaded sheets lack
MissingRequired ==
    {name \in {"disciplina", "Ano", "Semestre", "problema", "parecer"} :
        name \notin Labels(file_consolidado) /\ (name \o "_historico") \notin Labels(file_consolidado)}
    \cup ({"Nome completo"} \ Labels(file_requerimentos))

\* C4: a run halted by a schema error names in its message every required column missing from
\* either table.
C4_SchemaErrorNamesAllMissing ==
    SchemaErrorRaised => \A name \in MissingRequired : Contains(name, raised.msg)

\* C5: what the download holds is the table the merge returned: the same columns in the same
\* order and the same rows, in either format.
C5_ExportIsJoinResult ==
    Done("export") =>
        /\ download.format = "xlsx" => (download.columns = merged.columns /\ download.rows = merged.rows)
        /\ download.format = "csv" => download.text = CsvText(merged)

DecisionMentions(c, words) == c.k = "str" /\ \E w \in words : Contains(w, Lower(c.s))
DecisionCount(df, words) ==
    Cardinality({r \in 1..NRows(df) : DecisionMentions(df.rows[r][ColIndex(df, "parecer_historico")], words)})

\* C6: for a joined table that is not empty the metrics hold the approval rate 100*A/(A+R), A the
\* rows whose decision mentions 'aprovado', R those mentioning 'negado' or 'indeferido', and 0 when
\* A+R = 0.
C6_ApprovalRate ==
    (Done("join") /\ NRows(merged) > 0) =>
        /\ "taxa_aprovacao" \in DOMAIN metrics
        /\ LET A == DecisionCount(merged, {"aprovado"})
               R == DecisionCount(merged, {"negado", "indeferido"})
           IN IF A + R = 0 THEN metrics.taxa_aprovacao.num = 0
              ELSE metrics.taxa_aprovacao.num * (A + R) = 100 * A * metrics.taxa_aprovacao.den

ResultKinds == {"warning", "metric", "chart", "table", "info", "expander", "download", "success"}

\* C7: a run that ends with an error has shown no result before it (no warning, metric, table
\* or chart).
C7_NoOutputBeforeError ==
    raised.type # "" => \A i \in 1..Len(shown) : shown[i].kind \notin ResultKinds

\* C8: on an empty joined table the metrics call raises nothing and returns no top-course list
\* and no temporal distribution, and the rate its caller shows is 0.
C8_EmptyJoinMetrics ==
    (Done("join") /\ NRows(merged) = 0) =>
        /\ Done("metrics")
        /\ raised.step # "metrics"
        /\ "taxa_aprovacao" \notin DOMAIN metrics
        /\ "top_disciplinas" \notin DOMAIN metrics
        /\ "distribuicao_temporal" \notin DOMAIN metrics
        /\ Done("display") => InSeq(Out("metric", "Taxa de Aprovação (Hist.): 0.0%"), shown)

\* C8 witness: a student without history; the page shows the rate 0.
C8_Witness ==
    /\ Done("display")
    /\ NRows(merged) = 0
    /\ NRows(df_requerimentos) > 0
    /\ NRows(df_consolidado) > 0
    /\ InSeq(Out("metric", "Taxa de Aprovação (Hist.): 0.0%"), shown)

AcceptedSpellings == {"nusp", "numero usp", "número usp", "n° usp", "n usp"}
FixedKeywords == {"nusp", "numero usp", "número usp", "n° usp"}
IsIdentifierLabel(label) ==
    \/ Strip(Lower(label)) \in AcceptedSpellings
    \/ \E w \in FixedKeywords : Contains(w, Strip(Lower(label)))

\* after is before with its first identifier column renamed to nusp and nothing else changed
RenamedFirst(before, after) ==
    /\ after.rows = before.rows
    /\ Len(after.columns) = Len(before.columns)
    /\ \E i \in 1..Len(before.columns) :
        /\ IsIdentifierLabel(before.columns[i])
        /\ \A j \in 1..(i - 1) : ~IsIdentifierLabel(before.columns[j])
        /\ after.columns[i] = "nusp"
        /\ \A j \in 1..Len(before.columns) : j # i => after.columns[j] = before.columns[j]

\* the call failed on before: no column matches, the message lists every label, the table is as read
FailedListing(before, after) ==
    /\ \A i \in 1..Len(before.columns) : ~IsIdentifierLabel(before.columns[i])
    /\ raised.type = "ValueError"
    /\ \A i \in 1..Len(before.columns) : Contains(before.columns[i], raised.msg)
    /\ after = before

RunAppSteps == {"run_app", "normalize_consolidado", "normalize_requerimentos", "validate",
                "sanitize", "join", "display", "export"}

\* C10: run_app runs in a rerun only if password_correct was true when the rerun started; the flag
\* starts false, turns true only on a submitted password equal to the configured one, and once
\* true stays true.
C10_PasswordGate ==
    /\ ~Flag
    /\ [](pc \in RunAppSteps => flag_at_start)
    /\ [][Flag => Flag']_vars
    /\ [][(~Flag /\ Flag') => (form_submitted /\ form_password = correct_password)]_vars

\* C10 witness: run_app at work in a session of the deployment with a configured password.
C10_Witness ==
    /\ pc = "export"
    /\ flag_at_start
    /\ "senha_mestra" \in DOMAIN secrets
====
